---- MODULE Spec2Model ----
(***************************************************************************)
(* Model of the COVID-19 compartmental simulation engine:                  *)
(*   src/src/model/agent.py  (Compartment, Agent)                          *)
(*   src/src/model/model.py  (Model)                                       *)
(*                                                                         *)
(* Agent objects live in `obj` (a function from an agent's construction    *)
(* index to its fields); `agents` is Model._agents, the list of            *)
(* references that Model.tick sorts in place.  Every random draw of the    *)
(* code is a nondeterministic choice over the outcomes it can produce.     *)
(* Positions are integers and a movement step is one of the two unit       *)
(* vectors along the x axis, so that distances are computed exactly.       *)
(***************************************************************************)
EXTENDS Integers, Sequences, FiniteSets, TLC

VARIABLES
    obj,            \* agent index -> Agent fields
    agents,         \* Model._agents: list of agent indices
    tick_count,     \* Model._tick_count
    peak_cases,     \* Model._peak_cases
    ticks_to_simulate,   \* Model.ticks_to_simulate
    infection_distance,  \* Model.infection_distance
    args,           \* the constructor's arguments
    contact_log,    \* the contact() calls made by the most recent Model.tick
    ret             \* what the most recent call returned

vars == <<obj, agents, tick_count, peak_cases, ticks_to_simulate,
          infection_distance, args, contact_log, ret>>

----------------------------------------------------------------------------
(* Bounds of the model *)

\* One simulated day, in ticks.  The source uses 4 * 24; every duration of
\* the source is a multiple of it, and the model scales the day down.
TICKS_PER_DAY == 1

\* Model.tick is not called more often than this.
MaxTickCount == 4

\* Agents stay within [-MaxCoord, MaxCoord] in x and in y.
MaxCoord == 1

\* In the single-agent specification, no more infections than this.
MaxInfections == 2

GridSides == {1, 2}
DaysToSimulate == {1, 2}
Percents == {0, 100}
InfectionDistances == {1}

----------------------------------------------------------------------------
(* agent.py: Compartment *)

SUSCEPTIBLE == 0
EXPOSED == 1
INFECTIOUS == 2
RECOVERED == 3
DECEASED == 4

Compartment == {SUSCEPTIBLE, EXPOSED, INFECTIOUS, RECOVERED, DECEASED}

(* agent.py: Agent class constants *)

INCUBATION_MIN_TICKS == 2 * TICKS_PER_DAY
INCUBATION_MAX_TICKS == 14 * TICKS_PER_DAY
TICKS_INFECTIOUS_AFTER_SYMPTOMATIC == 10 * TICKS_PER_DAY
TICKS_IMMUNE == 90 * TICKS_PER_DAY
TICKS_INFECTIOUS_BEFORE_SYMPTOMATIC == 3 * TICKS_PER_DAY

\* random.uniform(0, 2 * math.pi) followed by (cos, sin): a unit vector.
\* The model draws the directions 0 and pi.
Directions == {<<1, 0>>, <<-1, 0>>}

InBox(x, y) == x \in -MaxCoord..MaxCoord /\ y \in -MaxCoord..MaxCoord

----------------------------------------------------------------------------
(* Agent.__init__ *)

\* NewAgent not counting the infection an agent is created with.
NewAgent_SeedNotCounted(x, y, has_mask, should_isolate, infectious) ==
    [x |-> x,
     y |-> y,
     is_isolating |-> FALSE,
     compartment |-> IF infectious THEN INFECTIOUS ELSE SUSCEPTIBLE,
     future_compartment |-> IF infectious THEN INFECTIOUS ELSE SUSCEPTIBLE,
     num_infections |-> 0,
     immunity_ticks_left |-> IF infectious THEN TICKS_IMMUNE ELSE 0,
     ticks_before_symptomatic |-> IF infectious THEN 3 * TICKS_PER_DAY ELSE 0,
     is_asymptomatic |-> infectious,
     ticks_before_infectious |-> 0,
     ticks_infectious_left |-> 0,
     has_mask |-> has_mask,
     should_isolate |-> should_isolate]

NewAgent(x, y, has_mask, should_isolate, infectious) ==
    [x |-> x,
     y |-> y,
     is_isolating |-> FALSE,
     compartment |-> IF infectious THEN INFECTIOUS ELSE SUSCEPTIBLE,
     future_compartment |-> IF infectious THEN INFECTIOUS ELSE SUSCEPTIBLE,
     num_infections |-> IF infectious THEN 1 ELSE 0,
     immunity_ticks_left |-> IF infectious THEN TICKS_IMMUNE ELSE 0,
     ticks_before_symptomatic |-> IF infectious THEN 3 * TICKS_PER_DAY ELSE 0,
     is_asymptomatic |-> infectious,
     ticks_before_infectious |-> 0,
     ticks_infectious_left |-> 0,
     has_mask |-> has_mask,
     should_isolate |-> should_isolate]

----------------------------------------------------------------------------
(* Agent.tick, in the order of its statements *)

\* AdvanceExposed with the test made before the decrement.
AdvanceExposed_TestBeforeDecrement(a) ==
    [a EXCEPT !.ticks_before_infectious = @ - 1,
              !.ticks_before_symptomatic = @ - 1,
              !.future_compartment = IF a.ticks_before_infectious = 0
                                     THEN INFECTIOUS ELSE @]

\* The branch of an agent in the EXPOSED compartment.
AdvanceExposed(a) ==
    LET tbi == a.ticks_before_infectious - 1 IN
    [a EXCEPT !.ticks_before_infectious = tbi,
              !.ticks_before_symptomatic = @ - 1,
              !.future_compartment = IF tbi = 0 THEN INFECTIOUS ELSE @]

\* AdvanceInfectious starting the isolation of an asymptomatic case too.
AdvanceInfectious_IgnoresAsymptomatic(a, dies) ==
    LET tbs == a.ticks_before_symptomatic - 1 IN
    IF tbs = 0 THEN
        [a EXCEPT !.ticks_before_symptomatic = tbs,
                  !.ticks_infectious_left = TICKS_INFECTIOUS_AFTER_SYMPTOMATIC,
                  !.is_isolating = IF a.should_isolate THEN TRUE ELSE @]
    ELSE IF tbs < 0 THEN
        LET til == a.ticks_infectious_left - 1 IN
        IF til = 0 THEN
            [a EXCEPT !.ticks_before_symptomatic = tbs,
                      !.ticks_infectious_left = til,
                      !.is_isolating = FALSE,
                      !.future_compartment = IF dies THEN DECEASED
                                             ELSE RECOVERED]
        ELSE
            [a EXCEPT !.ticks_before_symptomatic = tbs,
                      !.ticks_infectious_left = til]
    ELSE
        [a EXCEPT !.ticks_before_symptomatic = tbs]

\* AdvanceInfectious starting the isolation of every symptomatic agent.
AdvanceInfectious_IgnoresShouldIsolate(a, dies) ==
    LET tbs == a.ticks_before_symptomatic - 1 IN
    IF tbs = 0 THEN
        [a EXCEPT !.ticks_before_symptomatic = tbs,
                  !.ticks_infectious_left = TICKS_INFECTIOUS_AFTER_SYMPTOMATIC,
                  !.is_isolating = IF ~a.is_asymptomatic THEN TRUE ELSE @]
    ELSE IF tbs < 0 THEN
        LET til == a.ticks_infectious_left - 1 IN
        IF til = 0 THEN
            [a EXCEPT !.ticks_before_symptomatic = tbs,
                      !.ticks_infectious_left = til,
                      !.is_isolating = FALSE,
                      !.future_compartment = IF dies THEN DECEASED
                                             ELSE RECOVERED]
        ELSE
            [a EXCEPT !.ticks_before_symptomatic = tbs,
                      !.ticks_infectious_left = til]
    ELSE
        [a EXCEPT !.ticks_before_symptomatic = tbs]

\* AdvanceInfectious counting the tick on which the symptoms start as the
\* first of the ticks that follow it.
AdvanceInfectious_CountsSymptomTick(a, dies) ==
    LET tbs == a.ticks_before_symptomatic - 1 IN
    IF tbs = 0 THEN
        [a EXCEPT !.ticks_before_symptomatic = tbs,
                  !.ticks_infectious_left =
                      TICKS_INFECTIOUS_AFTER_SYMPTOMATIC - 1,
                  !.is_isolating = IF a.should_isolate /\ ~a.is_asymptomatic
                                   THEN TRUE ELSE @]
    ELSE IF tbs < 0 THEN
        LET til == a.ticks_infectious_left - 1 IN
        IF til = 0 THEN
            [a EXCEPT !.ticks_before_symptomatic = tbs,
                      !.ticks_infectious_left = til,
                      !.is_isolating = FALSE,
                      !.future_compartment = IF dies THEN DECEASED
                                             ELSE RECOVERED]
        ELSE
            [a EXCEPT !.ticks_before_symptomatic = tbs,
                      !.ticks_infectious_left = til]
    ELSE
        [a EXCEPT !.ticks_before_symptomatic = tbs]

\* AdvanceInfectious leaving is_isolating as it is when the case ends.
AdvanceInfectious_KeepsIsolating(a, dies) ==
    LET tbs == a.ticks_before_symptomatic - 1 IN
    IF tbs = 0 THEN
        [a EXCEPT !.ticks_before_symptomatic = tbs,
                  !.ticks_infectious_left = TICKS_INFECTIOUS_AFTER_SYMPTOMATIC,
                  !.is_isolating = IF a.should_isolate /\ ~a.is_asymptomatic
                                   THEN TRUE ELSE @]
    ELSE IF tbs < 0 THEN
        LET til == a.ticks_infectious_left - 1 IN
        IF til = 0 THEN
            [a EXCEPT !.ticks_before_symptomatic = tbs,
                      !.ticks_infectious_left = til,
                      !.future_compartment = IF dies THEN DECEASED
                                             ELSE RECOVERED]
        ELSE
            [a EXCEPT !.ticks_before_symptomatic = tbs,
                      !.ticks_infectious_left = til]
    ELSE
        [a EXCEPT !.ticks_before_symptomatic = tbs]

\* The branch of an agent in the INFECTIOUS compartment.  `dies` is the
\* outcome of random.random() < CHANCE_OF_DEATH.
AdvanceInfectious(a, dies) ==
    LET tbs == a.ticks_before_symptomatic - 1 IN
    IF tbs = 0 THEN
        [a EXCEPT !.ticks_before_symptomatic = tbs,
                  !.ticks_infectious_left = TICKS_INFECTIOUS_AFTER_SYMPTOMATIC,
                  !.is_isolating = IF a.should_isolate /\ ~a.is_asymptomatic
                                   THEN TRUE ELSE @]
    ELSE IF tbs < 0 THEN
        LET til == a.ticks_infectious_left - 1 IN
        IF til = 0 THEN
            [a EXCEPT !.ticks_before_symptomatic = tbs,
                      !.ticks_infectious_left = til,
                      !.is_isolating = FALSE,
                      !.future_compartment = IF dies THEN DECEASED
                                             ELSE RECOVERED]
        ELSE
            [a EXCEPT !.ticks_before_symptomatic = tbs,
                      !.ticks_infectious_left = til]
    ELSE
        [a EXCEPT !.ticks_before_symptomatic = tbs]

\* AdvanceCase whose last branch does not test for RECOVERED.
AdvanceCase_AnyImmunityExpiry(a, dies) ==
    IF a.compartment = EXPOSED THEN AdvanceExposed(a)
    ELSE IF a.compartment = INFECTIOUS THEN AdvanceInfectious(a, dies)
    ELSE IF a.immunity_ticks_left = 0 THEN
        [a EXCEPT !.future_compartment = SUSCEPTIBLE]
    ELSE a

\* AdvanceCase whose last branch does not test the immunity countdown.
AdvanceCase_IgnoresImmunity(a, dies) ==
    IF a.compartment = EXPOSED THEN AdvanceExposed(a)
    ELSE IF a.compartment = INFECTIOUS THEN AdvanceInfectious(a, dies)
    ELSE IF a.compartment = RECOVERED THEN
        [a EXCEPT !.future_compartment = SUSCEPTIBLE]
    ELSE a

\* AdvanceCase choosing its branch by the staged compartment.
AdvanceCase_SeesStaged(a, dies) ==
    IF a.future_compartment = EXPOSED THEN AdvanceExposed(a)
    ELSE IF a.future_compartment = INFECTIOUS THEN AdvanceInfectious(a, dies)
    ELSE IF a.future_compartment = RECOVERED /\ a.immunity_ticks_left = 0 THEN
        [a EXCEPT !.future_compartment = SUSCEPTIBLE]
    ELSE a

\* AdvanceCase whose last branch waits for a countdown below zero.
AdvanceCase_ImmunityBelowZero(a, dies) ==
    IF a.compartment = EXPOSED THEN AdvanceExposed(a)
    ELSE IF a.compartment = INFECTIOUS THEN AdvanceInfectious(a, dies)
    ELSE IF a.compartment = RECOVERED /\ a.immunity_ticks_left < 0 THEN
        [a EXCEPT !.future_compartment = SUSCEPTIBLE]
    ELSE a

\* The timer-driven transitions (the if/elif chain).
AdvanceCase(a, dies) ==
    IF a.compartment = EXPOSED THEN AdvanceExposed(a)
    ELSE IF a.compartment = INFECTIOUS THEN AdvanceInfectious(a, dies)
    ELSE IF a.compartment = RECOVERED /\ a.immunity_ticks_left = 0 THEN
        [a EXCEPT !.future_compartment = SUSCEPTIBLE]
    ELSE a

\* Moves testing the staged compartment: an agent does not move on the
\* tick on which it dies.
Moves_TestsStaged(a) == ~a.is_isolating /\ a.future_compartment # DECEASED

\* Self-isolating agents and deceased agents remain in place.
Moves(a) == ~a.is_isolating /\ a.compartment # DECEASED

Move(a, direction) ==
    IF Moves(a)
    THEN [a EXCEPT !.x = @ + direction[1], !.y = @ + direction[2]]
    ELSE a

\* ImmunityCountdown running only while the agent is Recovered.
ImmunityCountdown_OnlyWhileRecovered(a) ==
    IF a.immunity_ticks_left > 0 /\ a.compartment = RECOVERED
    THEN [a EXCEPT !.immunity_ticks_left = @ - 1]
    ELSE a

ImmunityCountdown(a) ==
    IF a.immunity_ticks_left > 0
    THEN [a EXCEPT !.immunity_ticks_left = @ - 1]
    ELSE a

\* Commit leaving the compartment as it is.
Commit_Skipped(a) == a

Commit(a) == [a EXCEPT !.compartment = a.future_compartment]

tick(a, direction, dies) ==
    Commit(ImmunityCountdown(Move(AdvanceCase(a, dies), direction)))

\* Every outcome of one call of Agent.tick that keeps the agent in the box.
TickResults(a) ==
    { r \in { tick(a, direction, dies) : direction \in Directions,
                                         dies \in BOOLEAN } :
        InBox(r.x, r.y) }

----------------------------------------------------------------------------
(* Agent.contact *)

\* contact testing the current compartment instead of the staged one.
contact_TestsCompartment(a, transmits, asymptomatic, incubation) ==
    IF a.compartment = SUSCEPTIBLE /\ transmits THEN
        LET tbi == incubation - TICKS_INFECTIOUS_BEFORE_SYMPTOMATIC IN
        [a EXCEPT !.num_infections = @ + 1,
                  !.immunity_ticks_left = TICKS_IMMUNE,
                  !.is_asymptomatic = asymptomatic,
                  !.ticks_before_symptomatic = incubation,
                  !.ticks_before_infectious = tbi,
                  !.future_compartment = IF tbi <= 0 THEN INFECTIOUS
                                         ELSE EXPOSED]
    ELSE a

\* contact without the test of the staged compartment.
contact_Unguarded(a, transmits, asymptomatic, incubation) ==
    IF transmits THEN
        LET tbi == incubation - TICKS_INFECTIOUS_BEFORE_SYMPTOMATIC IN
        [a EXCEPT !.num_infections = @ + 1,
                  !.immunity_ticks_left = TICKS_IMMUNE,
                  !.is_asymptomatic = asymptomatic,
                  !.ticks_before_symptomatic = incubation,
                  !.ticks_before_infectious = tbi,
                  !.future_compartment = IF tbi <= 0 THEN INFECTIOUS
                                         ELSE EXPOSED]
    ELSE a

\* contact staging INFECTIOUS only for a negative ticks_before_infectious.
contact_StrictlyNegative(a, transmits, asymptomatic, incubation) ==
    IF a.future_compartment = SUSCEPTIBLE /\ transmits THEN
        LET tbi == incubation - TICKS_INFECTIOUS_BEFORE_SYMPTOMATIC IN
        [a EXCEPT !.num_infections = @ + 1,
                  !.immunity_ticks_left = TICKS_IMMUNE,
                  !.is_asymptomatic = asymptomatic,
                  !.ticks_before_symptomatic = incubation,
                  !.ticks_before_infectious = tbi,
                  !.future_compartment = IF tbi < 0 THEN INFECTIOUS
                                         ELSE EXPOSED]
    ELSE a

\* contact without the count of the infection.
contact_NotCounted(a, transmits, asymptomatic, incubation) ==
    IF a.future_compartment = SUSCEPTIBLE /\ transmits THEN
        LET tbi == incubation - TICKS_INFECTIOUS_BEFORE_SYMPTOMATIC IN
        [a EXCEPT !.immunity_ticks_left = TICKS_IMMUNE,
                  !.is_asymptomatic = asymptomatic,
                  !.ticks_before_symptomatic = incubation,
                  !.ticks_before_infectious = tbi,
                  !.future_compartment = IF tbi <= 0 THEN INFECTIOUS
                                         ELSE EXPOSED]
    ELSE a

\* `transmits` is the outcome of random.random() < transmission_probability
\* (0.037, times 0.56 with a mask: either outcome is possible with or
\* without a mask), `asymptomatic` that of random.random() <
\* ASYMPTOMATIC_PROBABILITY, `incubation` that of random.randint.
contact(a, transmits, asymptomatic, incubation) ==
    IF a.future_compartment = SUSCEPTIBLE /\ transmits THEN
        LET tbi == incubation - TICKS_INFECTIOUS_BEFORE_SYMPTOMATIC IN
        [a EXCEPT !.num_infections = @ + 1,
                  !.immunity_ticks_left = TICKS_IMMUNE,
                  !.is_asymptomatic = asymptomatic,
                  !.ticks_before_symptomatic = incubation,
                  !.ticks_before_infectious = tbi,
                  !.future_compartment = IF tbi <= 0 THEN INFECTIOUS
                                         ELSE EXPOSED]
    ELSE a

\* random.randint(INCUBATION_MIN_TICKS, INCUBATION_MAX_TICKS)
Incubations == INCUBATION_MIN_TICKS..INCUBATION_MAX_TICKS

\* The draws of the incubation that Model.tick is explored with: both ends
\* of the range, and the two around ticks-before-infectious = 0.
SampledIncubations ==
    {INCUBATION_MIN_TICKS, TICKS_INFECTIOUS_BEFORE_SYMPTOMATIC,
     TICKS_INFECTIOUS_BEFORE_SYMPTOMATIC + 1, INCUBATION_MAX_TICKS}

\* Every outcome of one call of Agent.contact with the incubation drawn
\* from `incubations`.
ContactResults(a, incubations) ==
    { contact(a, transmits, asymptomatic, incubation) :
        transmits \in BOOLEAN, asymptomatic \in BOOLEAN,
        incubation \in incubations }

----------------------------------------------------------------------------
(* Python built-ins used by model.py *)

\* Round taking a tie upwards.
Round_HalfUp(num, den) ==
    LET q == num \div den
        r == num % den
    IN IF 2 * r < den THEN q ELSE q + 1

\* round(num / den) for num >= 0, den > 0: to the nearest integer, a tie
\* going to the even neighbour.
Round(num, den) ==
    LET q == num \div den
        r == num % den
    IN IF 2 * r < den THEN q
       ELSE IF 2 * r > den THEN q + 1
       ELSE IF q % 2 = 0 THEN q ELSE q + 1

\* random.shuffle of a list of booleans: any arrangement of the same values.
Shuffles(list) ==
    { s \in [1..Len(list) -> BOOLEAN] :
        Cardinality({i \in 1..Len(s) : s[i]}) =
        Cardinality({i \in 1..Len(list) : list[i]}) }

\* list.sort(key=...): a stable sort.  `key` maps each element to its key.
RECURSIVE Sort(_, _)
Sort(list, key) ==
    IF list = <<>> THEN <<>>
    ELSE LET front == Sort(SubSeq(list, 1, Len(list) - 1), key)
             e == list[Len(list)]
             n == Cardinality({i \in 1..Len(front) : key[front[i]] <= key[e]})
         IN SubSeq(front, 1, n) \o <<e>> \o SubSeq(front, n + 1, Len(front))

\* bisect.bisect_left(a, x) and bisect.bisect_right(a, x) on the list of
\* keys `a`; lo and hi are 0-based as in the library, a[mid] is a[mid + 1].
RECURSIVE BisectLeftFrom(_, _, _, _)
BisectLeftFrom(a, x, lo, hi) ==
    IF lo < hi
    THEN LET mid == (lo + hi) \div 2 IN
         IF a[mid + 1] < x THEN BisectLeftFrom(a, x, mid + 1, hi)
         ELSE BisectLeftFrom(a, x, lo, mid)
    ELSE lo

bisect_left(a, x) == BisectLeftFrom(a, x, 0, Len(a))

RECURSIVE BisectRightFrom(_, _, _, _)
BisectRightFrom(a, x, lo, hi) ==
    IF lo < hi
    THEN LET mid == (lo + hi) \div 2 IN
         IF x < a[mid + 1] THEN BisectRightFrom(a, x, lo, mid)
         ELSE BisectRightFrom(a, x, mid + 1, hi)
    ELSE lo

bisect_right(a, x) == BisectRightFrom(a, x, 0, Len(a))

----------------------------------------------------------------------------
(* Model.__init__ *)

NumAgents(grid_side_length) == grid_side_length * grid_side_length

\* round((percent / 100) * num_agents)
NumWithFlag(percent, num_agents) == Round(percent * num_agents, 100)

FlagList(num_true, num_agents) == [i \in 1..num_agents |-> i - 1 < num_true]

\* infectious_agent_index computed from half the side length.
infectious_agent_index_HalfOfSide(grid_side_length) ==
    Round(grid_side_length, 2) * grid_side_length
    + Round(grid_side_length, 2)

infectious_agent_index(grid_side_length) ==
    Round(grid_side_length - 1, 2) * grid_side_length
    + Round(grid_side_length - 1, 2)

\* GridAgent with the index running down the columns: the agent with index
\* i in column i div g and row i mod g.
GridAgent_ColumnMajor(i, g, d, has_mask_list, should_isolate_list) ==
    NewAgent(d * (2 * (i \div g) - (g - 1)),
             d * (2 * (i % g) - (g - 1)),
             has_mask_list[i + 1], should_isolate_list[i + 1],
             i = infectious_agent_index(g))

\* The agent with index i (0-based) of the grid.
GridAgent(i, g, d, has_mask_list, should_isolate_list) ==
    NewAgent(d * (2 * (i % g) - (g - 1)),
             d * (2 * (i \div g) - (g - 1)),
             has_mask_list[i + 1], should_isolate_list[i + 1],
             i = infectious_agent_index(g))

Init ==
    \E g \in GridSides, days \in DaysToSimulate,
       pm \in Percents, pi \in Percents, d \in InfectionDistances :
      LET n == NumAgents(g) IN
      \E has_mask_list \in Shuffles(FlagList(NumWithFlag(pm, n), n)),
         should_isolate_list \in Shuffles(FlagList(NumWithFlag(pi, n), n)) :
        /\ args = [grid_side_length |-> g, days_to_simulate |-> days,
                   percent_wearing_masks |-> pm,
                   percent_self_isolating |-> pi,
                   infection_distance |-> d]
        /\ ticks_to_simulate = days * TICKS_PER_DAY
        /\ infection_distance = d
        /\ obj = [i \in 0..(n - 1) |->
                    GridAgent(i, g, d, has_mask_list, should_isolate_list)]
        /\ agents = [k \in 1..n |-> k - 1]
        /\ tick_count = 0
        /\ peak_cases = 1
        /\ contact_log = <<>>
        /\ ret = <<>>

----------------------------------------------------------------------------
(* Model.simulation_running *)

\* simulation_running turning false one tick early.
simulation_running_OneTickShort == tick_count < ticks_to_simulate - 1

\* simulation_running with an inclusive comparison.
simulation_running_Inclusive == tick_count <= ticks_to_simulate

simulation_running == tick_count < ticks_to_simulate

----------------------------------------------------------------------------
(* Model.tick *)

CompartmentKey(o) == [i \in DOMAIN o |-> o[i].compartment]
XKey(o) == [i \in DOMAIN o |-> o[i].x]
KeysOf(list, key) == [k \in 1..Len(list) |-> key[list[k]]]

\* self._agents after the sort by compartment value.
SortedAgents(list, o) == Sort(list, CompartmentKey(o))

\* SusceptibleAgents with the bucket running to the end of the infectious
\* agents.
SusceptibleAgents_UpToInfectious(sorted, o) ==
    Sort(SubSeq(sorted, 1,
                bisect_right(KeysOf(sorted, CompartmentKey(o)), INFECTIOUS)),
         XKey(o))

\* susceptible_agents: the susceptible bucket, sorted by x.
SusceptibleAgents(sorted, o) ==
    Sort(SubSeq(sorted, 1,
                bisect_right(KeysOf(sorted, CompartmentKey(o)), SUSCEPTIBLE)),
         XKey(o))

\* WithinInfectionDistance with a strict comparison.
WithinInfectionDistance_Strict(a, ag, d) ==
    (a.x - ag.x) * (a.x - ag.x) + (a.y - ag.y) * (a.y - ag.y) < d * d

\* WithinInfectionDistance reaching twice the infection distance.
WithinInfectionDistance_TwiceAsFar(a, ag, d) ==
    (a.x - ag.x) * (a.x - ag.x) + (a.y - ag.y) * (a.y - ag.y)
        <= (2 * d) * (2 * d)

\* math.sqrt(dx * dx + dy * dy) <= infection_distance.  The coordinates are
\* integers, on which the comparison of the root equals that of the squares.
WithinInfectionDistance(a, ag, d) ==
    (a.x - ag.x) * (a.x - ag.x) + (a.y - ag.y) * (a.y - ag.y) <= d * d

\* Targets without the test of is_isolating.
Targets_IgnoresIsolation(ag, susceptible_agents, o, d) ==
    LET xs == KeysOf(susceptible_agents, XKey(o))
        susceptible_left_index == bisect_left(xs, o[ag].x - d)
        susceptible_right_index == bisect_right(xs, o[ag].x + d)
        F(t) == WithinInfectionDistance(o[t], o[ag], d)
    IN SelectSeq(SubSeq(susceptible_agents, susceptible_left_index + 1,
                        susceptible_right_index), F)

\* Targets with a window that is open on the left: it starts after the
\* susceptible agents at x = ag.x - d.
Targets_LeftOpenWindow(ag, susceptible_agents, o, d) ==
    IF o[ag].is_isolating THEN <<>>
    ELSE LET xs == KeysOf(susceptible_agents, XKey(o))
             susceptible_left_index == bisect_right(xs, o[ag].x - d)
             susceptible_right_index == bisect_right(xs, o[ag].x + d)
             F(t) == WithinInfectionDistance(o[t], o[ag], d)
         IN SelectSeq(SubSeq(susceptible_agents, susceptible_left_index + 1,
                             susceptible_right_index), F)

\* The susceptible agents that the inner loop tests positive for the
\* infectious agent ag, in the order of the loop.
Targets(ag, susceptible_agents, o, d) ==
    IF o[ag].is_isolating THEN <<>>
    ELSE LET xs == KeysOf(susceptible_agents, XKey(o))
             susceptible_left_index == bisect_left(xs, o[ag].x - d)
             susceptible_right_index == bisect_right(xs, o[ag].x + d)
             F(t) == WithinInfectionDistance(o[t], o[ag], d)
         IN SelectSeq(SubSeq(susceptible_agents, susceptible_left_index + 1,
                             susceptible_right_index), F)

\* The (infectious, susceptible) pairs for which transmission is attempted,
\* in the order of the two loops.
RECURSIVE PairsFrom(_, _, _, _, _, _)
PairsFrom(i, right, sorted, susceptible_agents, o, d) ==
    IF i >= right THEN <<>>
    ELSE LET ag == sorted[i + 1]
             ts == Targets(ag, susceptible_agents, o, d)
         IN [k \in 1..Len(ts) |-> [src |-> ag, tgt |-> ts[k]]]
            \o PairsFrom(i + 1, right, sorted, susceptible_agents, o, d)

\* ContactPairs with the outer loop running to the end of the list.
ContactPairs_NoRightBound(sorted, o, d) ==
    LET keys == KeysOf(sorted, CompartmentKey(o))
        infectious_left_index == bisect_left(keys, INFECTIOUS)
    IN PairsFrom(infectious_left_index, Len(sorted), sorted,
                 SusceptibleAgents(sorted, o), o, d)

ContactPairs(sorted, o, d) ==
    LET keys == KeysOf(sorted, CompartmentKey(o))
        infectious_left_index == bisect_left(keys, INFECTIOUS)
        infectious_right_index == bisect_right(keys, INFECTIOUS)
    IN PairsFrom(infectious_left_index, infectious_right_index, sorted,
                 SusceptibleAgents(sorted, o), o, d)

\* Whether a.contact() is invoked for a pair: always when the infectious
\* agent has no mask, and on random.random() < MASK_TRANSMISSION_FACTOR
\* when it has one.
Invoked(ag) == IF ag.has_mask THEN BOOLEAN ELSE {TRUE}

\* The contact phase: every outcome [obj, log] of the attempts `pairs`.
RECURSIVE ResolveContacts(_, _)
ResolveContacts(pairs, st) ==
    IF pairs = <<>> THEN {st}
    ELSE LET p == Head(pairs) IN
         UNION { IF invoked
                 THEN UNION { ResolveContacts(Tail(pairs),
                                [obj |-> [st.obj EXCEPT ![p.tgt] = r],
                                 log |-> Append(st.log, p)]) :
                              r \in ContactResults(st.obj[p.tgt],
                                                  SampledIncubations) }
                 ELSE ResolveContacts(Tail(pairs), st) :
                 invoked \in Invoked(st.obj[p.src]) }

\* AdvanceAgents with a loop that ends at the first Deceased agent.
RECURSIVE AdvanceAgents_StopsAtDeceased(_, _)
AdvanceAgents_StopsAtDeceased(list, o) ==
    IF list = <<>> \/ o[Head(list)].compartment = DECEASED THEN {o}
    ELSE UNION { AdvanceAgents_StopsAtDeceased(Tail(list),
                                               [o EXCEPT ![Head(list)] = r]) :
                 r \in TickResults(o[Head(list)]) }

\* The advance phase: every outcome of calling tick on the agents of `list`.
RECURSIVE AdvanceAgents(_, _)
AdvanceAgents(list, o) ==
    IF list = <<>> THEN {o}
    ELSE UNION { AdvanceAgents(Tail(list), [o EXCEPT ![Head(list)] = r]) :
                 r \in TickResults(o[Head(list)]) }

\* IsCase counting the infectious agents only.
IsCase_InfectiousOnly(a) == a.compartment = INFECTIOUS

IsCase(a) == a.compartment = EXPOSED \/ a.compartment = INFECTIOUS

\* current_cases after the loop over self._agents.
CurrentCases(list, o) == Cardinality({k \in 1..Len(list) : IsCase(o[list[k]])})

\* Model.tick refusing to work once the simulation has ended: it returns
\* at once, leaving the agents, the peak and the tick count as they are.
Tick_IgnoredAfterTheEnd ==
    IF simulation_running
    THEN /\ LET sorted == SortedAgents(agents, obj)
                pairs == ContactPairs(sorted, obj, infection_distance)
            IN \E st \in ResolveContacts(pairs, [obj |-> obj, log |-> <<>>]) :
               \E o \in AdvanceAgents(sorted, st.obj) :
                 LET current_cases == CurrentCases(sorted, o) IN
                 /\ agents' = sorted
                 /\ obj' = o
                 /\ contact_log' = st.log
                 /\ peak_cases' = IF current_cases > peak_cases
                                  THEN current_cases ELSE peak_cases
                 /\ tick_count' = tick_count + 1
                 /\ ret' = <<>>
         /\ UNCHANGED <<ticks_to_simulate, infection_distance, args>>
    ELSE /\ ret' = <<>>
         /\ UNCHANGED <<obj, agents, tick_count, peak_cases,
                        ticks_to_simulate, infection_distance, args,
                        contact_log>>

Tick ==
    /\ LET sorted == SortedAgents(agents, obj)
           pairs == ContactPairs(sorted, obj, infection_distance)
       IN \E st \in ResolveContacts(pairs, [obj |-> obj, log |-> <<>>]) :
          \E o \in AdvanceAgents(sorted, st.obj) :
            LET current_cases == CurrentCases(sorted, o) IN
            /\ agents' = sorted
            /\ obj' = o
            /\ contact_log' = st.log
            /\ peak_cases' = IF current_cases > peak_cases
                             THEN current_cases ELSE peak_cases
            /\ tick_count' = tick_count + 1
            /\ ret' = <<>>
    /\ UNCHANGED <<ticks_to_simulate, infection_distance, args>>

ModelTick == tick_count < MaxTickCount /\ Tick

----------------------------------------------------------------------------
(* Model.get_simulation_stats *)

\* SumInfections leaving out the agents that have died.
RECURSIVE SumInfections_OfTheLiving(_, _)
SumInfections_OfTheLiving(list, o) ==
    IF list = <<>> THEN 0
    ELSE (IF o[Head(list)].compartment = DECEASED THEN 0
          ELSE o[Head(list)].num_infections)
         + SumInfections_OfTheLiving(Tail(list), o)

RECURSIVE SumInfections(_, _)
SumInfections(list, o) ==
    IF list = <<>> THEN 0
    ELSE o[Head(list)].num_infections + SumInfections(Tail(list), o)

\* NumDeaths counting every agent whose case has ended.
NumDeaths_CountsRecovered(list, o) ==
    Cardinality({k \in 1..Len(list) : o[list[k]].compartment >= RECOVERED})

NumDeaths(list, o) ==
    Cardinality({k \in 1..Len(list) : o[list[k]].compartment = DECEASED})

get_simulation_stats ==
    <<SumInfections(agents, obj), NumDeaths(agents, obj), peak_cases>>

GetSimulationStats ==
    /\ ret' = get_simulation_stats
    /\ UNCHANGED <<obj, agents, tick_count, peak_cases, ticks_to_simulate,
                   infection_distance, args, contact_log>>

----------------------------------------------------------------------------
Next == ModelTick \/ GetSimulationStats

Spec == Init /\ [][Next]_vars

----------------------------------------------------------------------------
(* A single Agent driven through its public methods in any order: the      *)
(* calls Model.tick makes on one agent form one such sequence.             *)

InitAgent ==
    \E has_mask \in BOOLEAN, should_isolate \in BOOLEAN,
       infectious \in BOOLEAN :
        /\ obj = [i \in {0} |->
                    NewAgent(0, 0, has_mask, should_isolate, infectious)]
        /\ agents = <<0>>
        /\ tick_count = 0
        /\ peak_cases = 1
        /\ ticks_to_simulate = 0
        /\ infection_distance = 1
        /\ args = [grid_side_length |-> 1, days_to_simulate |-> 0,
                   percent_wearing_masks |-> 0,
                   percent_self_isolating |-> 0,
                   infection_distance |-> 1]
        /\ contact_log = <<>>
        /\ ret = <<>>

AgentTick ==
    /\ \E r \in TickResults(obj[0]) : obj' = [obj EXCEPT ![0] = r]
    /\ UNCHANGED <<agents, tick_count, peak_cases, ticks_to_simulate,
                   infection_distance, args, contact_log, ret>>

AgentContact ==
    /\ \E r \in ContactResults(obj[0], Incubations) :
          /\ r.num_infections <= MaxInfections
          /\ obj' = [obj EXCEPT ![0] = r]
    /\ UNCHANGED <<agents, tick_count, peak_cases, ticks_to_simulate,
                   infection_distance, args, contact_log, ret>>

NextAgent == AgentTick \/ AgentContact

SpecAgent == InitAgent /\ [][NextAgent]_vars

\* The same, with tick called again and again: Model.tick calls the tick
\* of every agent, and a client calls Model.tick until the run is over.
SpecAgentTicked == InitAgent /\ [][NextAgent]_vars /\ WF_vars(AgentTick)

----------------------------------------------------------------------------
(* A run in progress.  The population of a 2 x 2 grid is taken             *)
(* SnapshotTick ticks into a run in which the seed has infected some of    *)
(* the other agents in the last tick of its own case; from there Model.tick*)
(* runs once.  The run so far is replayed with the operations above, the   *)
(* draws of each case being given by a script; the agents move in any      *)
(* direction in the program, and the replay leaves the movement out and    *)
(* places the agents afterwards.                                           *)

\* The tick in which the seed's case ends.
SeedEnd == 3 * TICKS_PER_DAY + TICKS_INFECTIOUS_AFTER_SYMPTOMATIC
InfectedAt == SeedEnd
SnapshotTick == InfectedAt + INCUBATION_MIN_TICKS

\* What happened to an agent other than the seed in tick InfectedAt.
CaseScripts ==
    { [infected |-> FALSE, asymptomatic |-> FALSE,
       incubation |-> INCUBATION_MIN_TICKS],
      [infected |-> TRUE, asymptomatic |-> FALSE,
       incubation |-> INCUBATION_MIN_TICKS],
      [infected |-> TRUE, asymptomatic |-> TRUE,
       incubation |-> INCUBATION_MIN_TICKS],
      [infected |-> TRUE, asymptomatic |-> FALSE,
       incubation |-> INCUBATION_MAX_TICKS] }

\* One script per agent other than the seed; agent 3 stays susceptible.
Scripts == { c \in [1..3 -> CaseScripts] : ~c[3].infected }

Places == {<<0, 0>>, <<1, 0>>, <<1, 1>>}

\* Where the seed is: at the infection distance from two of the places.
SeedPlace == <<0, 1>>

\* The agent a after tick number t of the replayed run.
ScriptedAgentTick(a, t, case, dies) ==
    tick(IF t = InfectedAt /\ case.infected
         THEN contact(a, TRUE, case.asymptomatic, case.incubation)
         ELSE a,
         <<0, 0>>, dies)

RECURSIVE ScriptedAgents(_, _, _, _, _)
ScriptedAgents(ids, o, t, script, dies) ==
    IF ids = {} THEN <<>>
    ELSE LET i == CHOOSE i \in ids : TRUE IN
         (i :> ScriptedAgentTick(o[i], t, script[i], dies))
         @@ ScriptedAgents(ids \ {i}, o, t, script, dies)

\* Tick number t of the replayed run, from st = [obj, agents, peak].
ScriptedTick(st, t, script, dies) ==
    LET sorted == SortedAgents(st.agents, st.obj)
        o == ScriptedAgents(DOMAIN st.obj, st.obj, t, script, dies)
        current_cases == CurrentCases(sorted, o)
    IN [obj |-> o, agents |-> sorted,
        peak |-> IF current_cases > st.peak THEN current_cases ELSE st.peak]

RECURSIVE Replay(_, _, _, _)
Replay(t, start, script, dies) ==
    IF t = 0 THEN start
    ELSE CHOOSE r \in { ScriptedTick(st, t, script, dies) :
                        st \in {Replay(t - 1, start, script, dies)} } : TRUE

\* The seed is constructed infectious and is not infected again.
NoCase == [infected |-> FALSE, asymptomatic |-> FALSE,
           incubation |-> INCUBATION_MIN_TICKS]

InitMid ==
    \E pm \in Percents, cases \in Scripts,
       seed_dies \in BOOLEAN, place \in [1..3 -> Places] :
      LET g == 2
          d == 1
          n == NumAgents(g)
          seed == infectious_agent_index(g)
      IN
      \E has_mask_list \in Shuffles(FlagList(NumWithFlag(pm, n), n)),
         should_isolate_list \in Shuffles(FlagList(NumWithFlag(100, n), n)) :
        LET start == [obj |-> [i \in 0..(n - 1) |->
                                 GridAgent(i, g, d, has_mask_list,
                                           should_isolate_list)],
                      agents |-> [k \in 1..n |-> k - 1],
                      peak |-> 1]
            script == (seed :> NoCase) @@ cases
        IN
        \E now \in {Replay(SnapshotTick, start, script, seed_dies)} :
        /\ args = [grid_side_length |-> g,
                   days_to_simulate |-> SnapshotTick + 1,
                   percent_wearing_masks |-> pm,
                   percent_self_isolating |-> 100,
                   infection_distance |-> d]
        /\ ticks_to_simulate = (SnapshotTick + 1) * TICKS_PER_DAY
        /\ infection_distance = d
        /\ obj = [i \in 0..(n - 1) |->
                    IF i = seed
                    THEN [now.obj[i] EXCEPT !.x = SeedPlace[1],
                                            !.y = SeedPlace[2]]
                    ELSE [now.obj[i] EXCEPT !.x = place[i][1],
                                            !.y = place[i][2]]]
        /\ agents = now.agents
        /\ tick_count = SnapshotTick
        /\ peak_cases = now.peak
        /\ contact_log = <<>>
        /\ ret = <<>>

MidTick == tick_count = SnapshotTick /\ Tick

MidStats == tick_count = SnapshotTick /\ GetSimulationStats

NextMid == MidTick \/ MidStats

SpecMid == InitMid /\ [][NextMid]_vars

----------------------------------------------------------------------------
(* The tick in which the seed's case ends.  The population of a 2 x 2 grid *)
(* is taken to the tick before it, no agent having been infected so far    *)
(* (replayed as above, and placed afterwards); from there Model.tick runs  *)
(* once: the seed, still infectious, may infect its neighbours, and then   *)
(* recovers or dies.                                                       *)

LastSeedTick == SeedEnd - 1

InitSeedEnd ==
    \E pm \in Percents, place \in [1..3 -> Places] :
      LET g == 2
          d == 1
          n == NumAgents(g)
          seed == infectious_agent_index(g)
      IN
      \E has_mask_list \in Shuffles(FlagList(NumWithFlag(pm, n), n)),
         should_isolate_list \in Shuffles(FlagList(NumWithFlag(100, n), n)) :
        LET start == [obj |-> [i \in 0..(n - 1) |->
                                 GridAgent(i, g, d, has_mask_list,
                                           should_isolate_list)],
                      agents |-> [k \in 1..n |-> k - 1],
                      peak |-> 1]
            script == [i \in 0..(n - 1) |-> NoCase]
        IN
        \E now \in {Replay(LastSeedTick, start, script, FALSE)} :
        /\ args = [grid_side_length |-> g,
                   days_to_simulate |-> SeedEnd,
                   percent_wearing_masks |-> pm,
                   percent_self_isolating |-> 100,
                   infection_distance |-> d]
        /\ ticks_to_simulate = SeedEnd * TICKS_PER_DAY
        /\ infection_distance = d
        /\ obj = [i \in 0..(n - 1) |->
                    IF i = seed
                    THEN [now.obj[i] EXCEPT !.x = SeedPlace[1],
                                            !.y = SeedPlace[2]]
                    ELSE [now.obj[i] EXCEPT !.x = place[i][1],
                                            !.y = place[i][2]]]
        /\ agents = now.agents
        /\ tick_count = LastSeedTick
        /\ peak_cases = now.peak
        /\ contact_log = <<>>
        /\ ret = <<>>

SeedEndTick == tick_count = LastSeedTick /\ Tick

SeedEndStats == GetSimulationStats

NextSeedEnd == SeedEndTick \/ SeedEndStats

SpecSeedEnd == InitSeedEnd /\ [][NextSeedEnd]_vars

----------------------------------------------------------------------------
(* The constructor applied to its arguments.  Before the call there is no  *)
(* Model: the arguments are in args and every field is empty.  A Model     *)
(* of one of the grids of GridSides is then ticked.                        *)

NewGridSides == {1, 2, 3, 4}
NewPercents == {0, 10, 50, 90, 100}
NewInfectionDistances == {1, 2}

\* Model.tick is called at most this often on a newly constructed Model.
NewTicks == 1

\* The arguments explored: every percentage on the grids of up to 9 agents,
\* none or all of the agents on the grid of 16.
NewArgs ==
    { a \in [grid_side_length : NewGridSides,
             days_to_simulate : {1},
             percent_wearing_masks : NewPercents,
             percent_self_isolating : NewPercents,
             infection_distance : NewInfectionDistances] :
        a.grid_side_length > 3 =>
            /\ a.percent_wearing_masks \in {0, 100}
            /\ a.percent_self_isolating \in {0, 100} }

InitNew ==
    /\ args \in NewArgs
    /\ obj = <<>>
    /\ agents = <<>>
    /\ ticks_to_simulate = 0
    /\ infection_distance = 0
    /\ tick_count = 0
    /\ peak_cases = 0
    /\ contact_log = <<>>
    /\ ret = <<>>

Constructed == agents # <<>>

\* Model.__init__ with the arguments args.
New ==
    /\ ~Constructed
    /\ LET g == args.grid_side_length
           d == args.infection_distance
           n == NumAgents(g)
       IN
       \E has_mask_list \in
              Shuffles(FlagList(NumWithFlag(args.percent_wearing_masks, n),
                                n)),
          should_isolate_list \in
              Shuffles(FlagList(NumWithFlag(args.percent_self_isolating, n),
                                n)) :
         /\ ticks_to_simulate' = args.days_to_simulate * TICKS_PER_DAY
         /\ infection_distance' = d
         /\ obj' = [i \in 0..(n - 1) |->
                      GridAgent(i, g, d, has_mask_list, should_isolate_list)]
         /\ agents' = [k \in 1..n |-> k - 1]
         /\ tick_count' = 0
         /\ peak_cases' = 1
    /\ UNCHANGED <<args, contact_log, ret>>

NewTick ==
    /\ Constructed
    /\ args.grid_side_length \in GridSides
    /\ tick_count < NewTicks
    /\ Tick

NextNew == New \/ NewTick

SpecNew == InitNew /\ [][NextNew]_vars

----------------------------------------------------------------------------
(* The run of a population of one agent, the seed, without masks and       *)
(* without isolation, for long enough to see the seed's case end and its   *)
(* immunity run out.                                                       *)

\* Model.tick is not called more often than this on the population of one.
OneAgentTicks == TICKS_IMMUNE + 5 * TICKS_PER_DAY

InitOne ==
    /\ Init
    /\ args.grid_side_length = 1
    /\ args.percent_wearing_masks = 0
    /\ args.percent_self_isolating = 0

OneTick == tick_count < OneAgentTicks /\ Tick

NextOne == OneTick \/ GetSimulationStats

SpecOne == InitOne /\ [][NextOne]_vars

----------------------------------------------------------------------------
(* main_script.py: the loop that runs a Model, without the display.  The   *)
(* Model is the one constructed from the user's inputs; the loop has       *)
(* ended when the statistics have been read (ret is no longer empty).      *)

\* model.tick(), reached when simulation_running() is true.
MainTick ==
    /\ ret = <<>>
    /\ simulation_running
    /\ Tick

\* The branch taken when simulation_running() is false:
\* get_simulation_stats(), the report, and break.
MainStats ==
    /\ ret = <<>>
    /\ ~simulation_running
    /\ GetSimulationStats

NextMain == MainTick \/ MainStats

\* One iteration of the loop, as far as tick_count and ret show it: a tick
\* (which always returns) while simulation_running() is true, the reading
\* of the statistics when it is false.
MainIteration ==
    /\ ret = <<>>
    /\ IF simulation_running
       THEN tick_count' = tick_count + 1 /\ ret' = ret
       ELSE tick_count' = tick_count /\ ret' = get_simulation_stats

\* The loop is the whole of a sequential program: while it has not ended,
\* it goes on to its next iteration.
SpecMain ==
    Init /\ [][NextMain]_vars /\ WF_<<tick_count, ret>>(MainIteration)

----------------------------------------------------------------------------
(* Properties *)

Agents == DOMAIN obj

\* The compartment changes named by the specification.
AllowedTransitions ==
    { <<SUSCEPTIBLE, EXPOSED>>, <<SUSCEPTIBLE, INFECTIOUS>>,
      <<EXPOSED, INFECTIOUS>>, <<INFECTIOUS, RECOVERED>>,
      <<INFECTIOUS, DECEASED>>, <<RECOVERED, SUSCEPTIBLE>> }

\* C1: over every step, each agent's compartment stays the same or changes
\* by one of S->E, S->I, E->I, I->R, I->D, R->S; in particular an agent that
\* is Deceased stays Deceased.
C1_CompartmentTransitions ==
    [][\A i \in Agents :
          \/ obj'[i].compartment = obj[i].compartment
          \/ <<obj[i].compartment, obj'[i].compartment>> \in AllowedTransitions
      ]_vars

\* An agent that has been infected twice and has died of the second case,
\* long enough ago for its immunity to have run out: it has made every kind
\* of transition except the one it can no longer make, and has stayed
\* Deceased over later ticks.
C1_Witness ==
    \E i \in Agents :
        /\ obj[i].compartment = DECEASED
        /\ obj[i].num_infections = 2
        /\ obj[i].immunity_ticks_left = 0

\* C2: over one Model.tick no agent's num_infections grows by more than
\* one, whatever the number of contact calls made on it, and it grows only
\* for an agent that was Susceptible.
C2_InfectedAtMostOncePerTick ==
    [][\A i \in Agents :
          /\ obj'[i].num_infections <= obj[i].num_infections + 1
          /\ obj'[i].num_infections # obj[i].num_infections
                => obj[i].compartment = SUSCEPTIBLE
      ]_vars

\* After a tick in which contact was called on one agent for two different
\* infectious agents, and the agent was infected: it has one infection.
C2_Witness ==
    \E j, k \in 1..Len(contact_log) :
        /\ j < k
        /\ contact_log[j].tgt = contact_log[k].tgt
        /\ contact_log[j].src # contact_log[k].src
        /\ obj[contact_log[j].tgt].num_infections = 1
        /\ IsCase(obj[contact_log[j].tgt])

\* C3: in every state, no agent is both asymptomatic and isolating.
C3_AsymptomaticNeverIsolating ==
    \A i \in Agents : ~(obj[i].is_asymptomatic /\ obj[i].is_isolating)

\* An agent that should isolate, in its second case, which is asymptomatic,
\* past the tick in which it would have become symptomatic.
C3_Witness ==
    \E i \in Agents :
        /\ obj[i].should_isolate
        /\ obj[i].is_asymptomatic
        /\ obj[i].num_infections = 2
        /\ obj[i].compartment = INFECTIOUS
        /\ obj[i].ticks_before_symptomatic <= 0

\* C4: every contact call of a Model.tick is made on an agent that was
\* Susceptible at the start of the tick, for an agent that, at the start of
\* the tick, was Infectious and not isolating.
C4_IsolatingNeverSource ==
    [][tick_count' = tick_count + 1 =>
          \A k \in 1..Len(contact_log') :
              /\ obj[contact_log'[k].src].compartment = INFECTIOUS
              /\ ~obj[contact_log'[k].src].is_isolating
              /\ obj[contact_log'[k].tgt].compartment = SUSCEPTIBLE
      ]_vars

\* After a tick: agent i has been isolating since before the tick (its
\* isolation started with ticks_infectious_left at its initial value, so it
\* has not moved), agent j has never been infected (it was Susceptible, and
\* moved by one step along x) and stands where i stands, so it was within
\* the infection distance of i at the start of the tick; no contact call
\* was made for i.
C4_Witness ==
    /\ tick_count = SnapshotTick + 1
    /\ \E i, j \in Agents :
          /\ obj[i].is_isolating
          /\ obj[i].ticks_infectious_left < TICKS_INFECTIOUS_AFTER_SYMPTOMATIC
          /\ obj[j].num_infections = 0
          /\ obj[j].x = obj[i].x /\ obj[j].y = obj[i].y
          /\ infection_distance >= 1
          /\ \A k \in 1..Len(contact_log) : contact_log[k].src # i

\* The number of agents that are Exposed or Infectious.
ActiveCases ==
    Cardinality({i \in Agents : obj[i].compartment \in {EXPOSED, INFECTIOUS}})

C6_CasesNeverDecrease ==
    [][/\ get_simulation_stats'[1] >= get_simulation_stats[1]
       /\ \A i \in Agents : obj'[i].num_infections >= obj[i].num_infections
      ]_vars

\* An agent that has been infected twice and has died: its two cases are
\* still counted.
C6_Witness ==
    /\ get_simulation_stats[1] = 2
    /\ \E i \in Agents : obj[i].compartment = DECEASED

\* The sum of num_infections over the agents of the set ids.
RECURSIVE TotalInfections(_)
TotalInfections(ids) ==
    IF ids = {} THEN 0
    ELSE LET i == CHOOSE i \in ids : TRUE
         IN obj[i].num_infections + TotalInfections(ids \ {i})

TotalDeaths == Cardinality({i \in Agents : obj[i].compartment = DECEASED})

C8_TickCountAndRunning ==
    /\ tick_count = 0
    /\ simulation_running <=>
          tick_count < args.days_to_simulate * TICKS_PER_DAY
    /\ [][/\ tick_count' = IF ret' = <<>> THEN tick_count + 1
                           ELSE tick_count
          /\ simulation_running' <=>
                tick_count' < args'.days_to_simulate * TICKS_PER_DAY
          /\ ~simulation_running => ~simulation_running'
        ]_vars

\* A run of two days ticked exactly that long, and once more.
C8_Witness ==
    /\ args.days_to_simulate = 2
    /\ tick_count = 2 * TICKS_PER_DAY + 1
    /\ ~simulation_running

\* C9: an agent becomes Exposed with ticks_before_infectious = k > 0; each
\* of its own ticks as an Exposed agent takes one off the counter, and the
\* agent is still Exposed after the tick if the counter is still positive
\* and Infectious if it has reached 0: Infectious after exactly k ticks.
C9_ExposedForExactlyK ==
    [][\A i \in Agents :
          /\ (obj[i].compartment # EXPOSED /\ obj'[i].compartment = EXPOSED)
                => /\ obj'[i].ticks_before_infectious > 0
                   /\ obj'[i].ticks_before_infectious =
                         obj[i].ticks_before_infectious
          /\ (obj[i].compartment = EXPOSED /\ obj'[i] # obj[i])
                => /\ obj[i].ticks_before_infectious > 0
                   /\ obj'[i].ticks_before_infectious =
                         obj[i].ticks_before_infectious - 1
                   /\ obj'[i].compartment =
                         IF obj'[i].ticks_before_infectious = 0
                         THEN INFECTIOUS ELSE EXPOSED
      ]_vars

\* An agent that was Exposed for the longest time there is and has just
\* become Infectious.
C9_Witness ==
    \E i \in Agents :
        /\ obj[i].compartment = INFECTIOUS
        /\ obj[i].ticks_before_infectious = 0
        /\ obj[i].ticks_before_symptomatic =
              TICKS_INFECTIOUS_BEFORE_SYMPTOMATIC
        /\ obj[i].immunity_ticks_left =
              TICKS_IMMUNE - (INCUBATION_MAX_TICKS
                              - TICKS_INFECTIOUS_BEFORE_SYMPTOMATIC) - 1

\* C10: whatever its draws, a call of contact on an agent whose staged
\* compartment is not Susceptible returns the agent as it was.
C10_ContactIsNoOp ==
    \A i \in Agents :
        obj[i].future_compartment # SUSCEPTIBLE
            => ContactResults(obj[i], Incubations) = {obj[i]}

\* An agent that is still Susceptible and was infected earlier in the tick.
C10_Witness ==
    \E i \in Agents :
        /\ obj[i].compartment = SUSCEPTIBLE
        /\ obj[i].future_compartment = EXPOSED
        /\ obj[i].num_infections = 2

\* C11: a step in which an agent's num_infections changes (a successful
\* contact) adds exactly one to it, sets the immunity countdown to
\* TICKS_IMMUNE, draws ticks_before_symptomatic from the incubation range,
\* sets ticks_before_infectious to it less
\* TICKS_INFECTIOUS_BEFORE_SYMPTOMATIC, stages INFECTIOUS if that is <= 0
\* and EXPOSED if it is > 0, and leaves the current compartment (which is
\* SUSCEPTIBLE) as it is.
C11_SuccessfulContact ==
    [][\A i \in Agents :
          obj'[i].num_infections # obj[i].num_infections =>
              /\ obj'[i].num_infections = obj[i].num_infections + 1
              /\ obj'[i].immunity_ticks_left = TICKS_IMMUNE
              /\ obj'[i].ticks_before_symptomatic \in Incubations
              /\ obj'[i].ticks_before_infectious =
                    obj'[i].ticks_before_symptomatic
                    - TICKS_INFECTIOUS_BEFORE_SYMPTOMATIC
              /\ obj'[i].future_compartment =
                    IF obj'[i].ticks_before_infectious <= 0
                    THEN INFECTIOUS ELSE EXPOSED
              /\ obj[i].compartment = SUSCEPTIBLE
              /\ obj'[i].compartment = obj[i].compartment
              /\ obj'[i].x = obj[i].x /\ obj'[i].y = obj[i].y
              /\ obj'[i].is_isolating = obj[i].is_isolating
      ]_vars

\* An agent just infected with ticks_before_infectious = 0: it is staged
\* INFECTIOUS and still SUSCEPTIBLE.
C11_Witness ==
    \E i \in Agents :
        /\ obj[i].compartment = SUSCEPTIBLE
        /\ obj[i].future_compartment = INFECTIOUS
        /\ obj[i].ticks_before_infectious = 0
        /\ obj[i].immunity_ticks_left = TICKS_IMMUNE

\* The population as the specification describes it right after
\* construction.
FreshPopulation ==
    /\ Cardinality(Agents) = args.grid_side_length * args.grid_side_length
    /\ Cardinality({i \in Agents : obj[i].compartment = INFECTIOUS}) = 1
    /\ \A i \in Agents :
          /\ ~obj[i].is_isolating
          /\ IF obj[i].compartment = INFECTIOUS
             THEN obj[i].num_infections = 1 /\ obj[i].is_asymptomatic
             ELSE /\ obj[i].compartment = SUSCEPTIBLE
                  /\ obj[i].num_infections = 0
                  /\ ~obj[i].is_asymptomatic
    /\ tick_count = 0
    /\ peak_cases = 1

\* C12: the constructor leaves exactly one agent Infectious, with one
\* infection, asymptomatic and not isolating, every other agent Susceptible
\* with no infection, not asymptomatic and not isolating, tick_count 0 and
\* peak_cases 1.
C12_AfterConstruction ==
    [][(~Constructed /\ Constructed') => FreshPopulation']_vars

\* A newly constructed grid of 16 agents, one of them the seed.
C12_Witness ==
    /\ Constructed
    /\ tick_count = 0
    /\ Cardinality(Agents) = 16
    /\ \E i \in Agents : obj[i].compartment = INFECTIOUS

\* Four times the squared distance, in grid steps, of the agent with index
\* i from the centre of the grid of side g (row i \div g, column i % g; the
\* centre is at row and column (g - 1) / 2).
CentreDistance(i, g) ==
    (2 * (i % g) - (g - 1)) * (2 * (i % g) - (g - 1))
    + (2 * (i \div g) - (g - 1)) * (2 * (i \div g) - (g - 1))

\* The agents nearest the centre.
Nearest ==
    LET g == args.grid_side_length IN
    { i \in Agents :
        \A j \in Agents : CentreDistance(i, g) <= CentreDistance(j, g) }

\* The agents constructed Infectious.
Seeds == { i \in Agents : obj[i].compartment = INFECTIOUS }

\* C13 as stated: the seeded agent is nearest the centre of the grid, and
\* has the lowest index of the agents that are as near.
C13_SeedIsLowestNearest ==
    (Constructed /\ tick_count = 0) =>
        \A i \in Seeds : i \in Nearest /\ \A j \in Nearest : i <= j

\* C13, amended: the seeded agent is one of the agents nearest the centre
\* of the grid; when four agents are equally near (side length even), it is
\* the one with the lowest index if the side length leaves 2 on division
\* by 4, and the one with the highest index if it is a multiple of 4.
C13_SeedIsNearest ==
    (Constructed /\ tick_count = 0) =>
        \A i \in Seeds :
            /\ i \in Nearest
            /\ args.grid_side_length % 4 = 2 => \A j \in Nearest : i <= j
            /\ args.grid_side_length % 4 = 0 => \A j \in Nearest : i >= j

\* A newly constructed grid of side 4: of the agents 5, 6, 9 and 10 around
\* the centre, agent 10 is the seed.
C13_Witness ==
    /\ Constructed
    /\ tick_count = 0
    /\ args.grid_side_length = 4
    /\ Nearest = {5, 6, 9, 10}
    /\ Seeds = {10}

\* The integer nearest to num / den, the even one of the two when num / den
\* lies halfway between them: what round(num / den) is in Python.
NearestInteger(num, den) ==
    CHOOSE k \in 0..(num \div den + 1) :
        LET twice_error == 2 * (k * den - num) IN
        \/ -den < twice_error /\ twice_error < den
        \/ (twice_error = den \/ twice_error = -den) /\ k % 2 = 0

\* C14: in a constructed population of n agents, whatever the shuffles and
\* however many ticks later, the number of agents with has_mask is
\* round(percent_wearing_masks / 100 * n) and the number of agents with
\* should_isolate is round(percent_self_isolating / 100 * n).
C14_FlagCounts ==
    Constructed =>
        LET n == args.grid_side_length * args.grid_side_length IN
        /\ Cardinality(Agents) = n
        /\ Cardinality({i \in Agents : obj[i].has_mask})
              = NearestInteger(args.percent_wearing_masks * n, 100)
        /\ Cardinality({i \in Agents : obj[i].should_isolate})
              = NearestInteger(args.percent_self_isolating * n, 100)

\* A population of 4 after a tick: 50% of them, 2, wear masks, and 90% of
\* them, 3.6 rounded to 4, isolate; agent 0 is not one of the two.
C14_Witness ==
    /\ tick_count = 1
    /\ args.grid_side_length = 2
    /\ args.percent_wearing_masks = 50
    /\ args.percent_self_isolating = 90
    /\ ~obj[0].has_mask
    /\ Cardinality({i \in Agents : obj[i].has_mask}) = 2
    /\ Cardinality({i \in Agents : obj[i].should_isolate}) = 4

\* The square of the distance between the agents i and j.
Distance2(i, j) ==
    (obj[i].x - obj[j].x) * (obj[i].x - obj[j].x)
    + (obj[i].y - obj[j].y) * (obj[i].y - obj[j].y)

\* C15: in a Model.tick, contact is called for the pair of a non-isolating
\* Infectious agent without a mask (with a mask the call is subject to a
\* further draw) and a Susceptible agent whenever their distance at the
\* start of the tick is at most the infection distance, the distance
\* itself included, and for no pair further apart.
C15_DistanceTestInclusive ==
    [][tick_count' = tick_count + 1 =>
          /\ \A k \in 1..Len(contact_log') :
                Distance2(contact_log'[k].src, contact_log'[k].tgt)
                    <= infection_distance * infection_distance
          /\ \A i, j \in Agents :
                (/\ obj[i].compartment = INFECTIOUS
                 /\ ~obj[i].is_isolating
                 /\ ~obj[i].has_mask
                 /\ obj[j].compartment = SUSCEPTIBLE
                 /\ Distance2(i, j) <= infection_distance * infection_distance)
                    => \E k \in 1..Len(contact_log') :
                          contact_log'[k] = [src |-> i, tgt |-> j]
      ]_vars

\* After a tick in which contact was called for one agent on two others:
\* one is now 1 apart from it in y, so that the two were level in x and at
\* exactly the infection distance, along y; the other is level with it in
\* y and an odd number of steps apart in x, so that the two were at exactly
\* the infection distance, along x.  (Each of them moved by a step along x.)
C15_Witness ==
    /\ infection_distance = 1
    /\ \E k, l \in 1..Len(contact_log) :
          LET i == contact_log[k].src
              j == contact_log[k].tgt
              m == contact_log[l].tgt
          IN /\ contact_log[l].src = i
             /\ obj[j].y - obj[i].y \in {1, -1}
             /\ obj[m].y = obj[i].y
             /\ obj[m].x - obj[i].x \in {1, -1}

\* C16: over every step, an agent that is Deceased stays Deceased where it
\* is, with its num_infections; no contact call of a Model.tick is made on
\* it or for it; it stays in the list of agents; and get_simulation_stats
\* counts it, the number of deaths being the number of Deceased agents.
C16_DeceasedIsInert ==
    [][\A i \in Agents :
          obj[i].compartment = DECEASED =>
              /\ obj'[i].compartment = DECEASED
              /\ obj'[i].x = obj[i].x /\ obj'[i].y = obj[i].y
              /\ obj'[i].num_infections = obj[i].num_infections
              /\ tick_count' = tick_count + 1 =>
                    \A k \in 1..Len(contact_log') :
                        contact_log'[k].src # i /\ contact_log'[k].tgt # i
              /\ \E k \in 1..Len(agents') : agents'[k] = i
              /\ get_simulation_stats'[2] =
                    Cardinality({j \in DOMAIN obj' :
                                    obj'[j].compartment = DECEASED})
      ]_vars

\* After a tick: the seed is Deceased and has been since before the tick
\* (it is where it was placed), an agent that was Susceptible and one step
\* to its side at the start of the tick, within the infection distance,
\* now stands where it stands, and contact was called on that agent for
\* another agent.
C16_Witness ==
    /\ tick_count = SnapshotTick + 1
    /\ \E i, j \in Agents :
          /\ obj[i].compartment = DECEASED
          /\ obj[i].x = SeedPlace[1] /\ obj[i].y = SeedPlace[2]
          /\ obj[j].x = obj[i].x /\ obj[j].y = obj[i].y
          /\ \E k \in 1..Len(contact_log) : contact_log[k].tgt = j

\* C17: in every state, an agent that should not isolate is not isolating,
\* and a population built with 0% self-isolating has no isolating agent.
C17_NoIsolationWithoutOptIn ==
    /\ \A i \in Agents : ~obj[i].should_isolate => ~obj[i].is_isolating
    /\ args.percent_self_isolating = 0 =>
          \A i \in Agents : ~obj[i].is_isolating

\* In a population built with 0% self-isolating and 100% masks, an agent
\* with a symptomatic case has just reached the tick on which its symptoms
\* start, and is not isolating.
C17_Witness ==
    /\ args.percent_self_isolating = 0
    /\ args.percent_wearing_masks = 100
    /\ \E i \in Agents :
          /\ obj[i].compartment = INFECTIOUS
          /\ ~obj[i].is_asymptomatic
          /\ obj[i].ticks_before_symptomatic = 0
          /\ obj[i].ticks_infectious_left = TICKS_INFECTIOUS_AFTER_SYMPTOMATIC
          /\ ~obj[i].is_isolating

\* C18: an infection sets the immunity countdown to TICKS_IMMUNE, no other
\* step takes more than one off it, and an agent is infected only when its
\* countdown is at zero: two infections of an agent are at least
\* TICKS_IMMUNE ticks apart.  A Recovered agent becomes Susceptible only in
\* a tick that starts with the countdown at zero.
C18_ImmunityBetweenInfections ==
    [][\A i \in Agents :
          /\ obj'[i].num_infections # obj[i].num_infections
                => /\ obj[i].immunity_ticks_left = 0
                   /\ obj'[i].immunity_ticks_left = TICKS_IMMUNE
          /\ obj'[i].num_infections = obj[i].num_infections
                => /\ obj'[i].immunity_ticks_left
                         \in {obj[i].immunity_ticks_left,
                              obj[i].immunity_ticks_left - 1}
                   /\ obj'[i].immunity_ticks_left >= 0
          /\ (obj[i].compartment = RECOVERED
              /\ obj'[i].compartment = SUSCEPTIBLE)
                => obj[i].immunity_ticks_left = 0
      ]_vars

\* An agent constructed infectious that has recovered, lost its immunity
\* and has just been infected for the second time.
C18_Witness ==
    \E i \in Agents :
        /\ obj[i].num_infections = 2
        /\ obj[i].compartment = SUSCEPTIBLE
        /\ obj[i].future_compartment # SUSCEPTIBLE
        /\ obj[i].immunity_ticks_left = TICKS_IMMUNE
        /\ obj[i].ticks_infectious_left = 0

\* C19: each own tick of an Infectious agent takes one off
\* ticks_before_symptomatic.  On the tick that brings it to zero the agent
\* stays Infectious, starts isolating if it should and its case is not
\* asymptomatic, and ticks_infectious_left is set to
\* TICKS_INFECTIOUS_AFTER_SYMPTOMATIC; each later tick takes one off that,
\* the agent staying Infectious and isolating as before while it is
\* positive, and being Recovered or Deceased and not isolating when it is
\* zero: after exactly TICKS_INFECTIOUS_AFTER_SYMPTOMATIC ticks.
C19_InfectiousAfterSymptoms ==
    [][\A i \in Agents :
          (obj[i].compartment = INFECTIOUS /\ obj'[i] # obj[i]) =>
              LET a == obj[i]
                  b == obj'[i]
              IN
              /\ b.ticks_before_symptomatic = a.ticks_before_symptomatic - 1
              /\ a.ticks_before_symptomatic > 1 =>
                    /\ b.compartment = INFECTIOUS
                    /\ ~b.is_isolating
              /\ a.ticks_before_symptomatic = 1 =>
                    /\ b.compartment = INFECTIOUS
                    /\ b.ticks_infectious_left =
                          TICKS_INFECTIOUS_AFTER_SYMPTOMATIC
                    /\ b.is_isolating =
                          (a.should_isolate /\ ~a.is_asymptomatic)
              /\ a.ticks_before_symptomatic <= 0 =>
                    /\ a.ticks_infectious_left >= 1
                    /\ a.ticks_infectious_left =
                          TICKS_INFECTIOUS_AFTER_SYMPTOMATIC
                          + a.ticks_before_symptomatic
                    /\ b.ticks_infectious_left = a.ticks_infectious_left - 1
                    /\ IF b.ticks_infectious_left = 0
                       THEN /\ b.compartment \in {RECOVERED, DECEASED}
                            /\ ~b.is_isolating
                       ELSE /\ b.compartment = INFECTIOUS
                            /\ b.is_isolating = a.is_isolating
      ]_vars

\* An agent that isolated through its second case, which has just ended:
\* it has recovered TICKS_INFECTIOUS_AFTER_SYMPTOMATIC ticks after the tick
\* on which its symptoms started, and is no longer isolating.
C19_Witness ==
    \E i \in Agents :
        /\ obj[i].compartment = RECOVERED
        /\ obj[i].num_infections = 2
        /\ obj[i].should_isolate /\ ~obj[i].is_asymptomatic
        /\ obj[i].ticks_before_symptomatic
              = -TICKS_INFECTIOUS_AFTER_SYMPTOMATIC
        /\ obj[i].ticks_infectious_left = 0
        /\ ~obj[i].is_isolating

\* C20: in a population of one agent built without masks and without
\* isolation, no Model.tick makes a contact call, and in every state the
\* statistics are 1 case, a peak of 1 case and 0 or 1 deaths; a call of
\* get_simulation_stats returns just that.
C20_PopulationOfOne ==
    (/\ args.grid_side_length = 1
     /\ args.percent_wearing_masks = 0
     /\ args.percent_self_isolating = 0)
        => /\ contact_log = <<>>
           /\ get_simulation_stats[1] = 1
           /\ get_simulation_stats[2] \in {0, 1}
           /\ get_simulation_stats[3] = 1
           /\ ret # <<>> => ret \in {<<1, 0, 1>>, <<1, 1, 1>>}

\* The statistics returned after the one-day run and long after it, the
\* agent having died: 1 case, 1 death, a peak of 1.
C20_Witness ==
    /\ args.grid_side_length = 1
    /\ args.days_to_simulate = 1
    /\ tick_count > TICKS_IMMUNE
    /\ ret = <<1, 1, 1>>

\* The column and the row of the agent with index i on the grid of side g.
Column(i, g) == i % g
Row(i, g) == i \div g

\* The agents next to each other on the grid, along a row or a column.
LatticeNeighbours(i, j, g) ==
    \/ Row(i, g) = Row(j, g) /\ Column(j, g) - Column(i, g) \in {1, -1}
    \/ Column(i, g) = Column(j, g) /\ Row(j, g) - Row(i, g) \in {1, -1}

\* C21: right after construction, the x of the agent with index i depends
\* on its column i mod g only and its y on its row i div g only; a step to
\* the next column adds 2 * infection_distance to x and a step to the next
\* row adds 2 * infection_distance to y; and the grid is centred on the
\* origin, its first and last columns, and its first and last rows, lying
\* opposite each other.
C21_SquareLattice ==
    (Constructed /\ tick_count = 0) =>
        LET g == args.grid_side_length
            d == args.infection_distance
        IN
        /\ Agents = 0..(g * g - 1)
        /\ \A i, j \in Agents :
              /\ Column(i, g) = Column(j, g) => obj[i].x = obj[j].x
              /\ Row(i, g) = Row(j, g) => obj[i].y = obj[j].y
              /\ Column(j, g) = Column(i, g) + 1
                    => obj[j].x = obj[i].x + 2 * d
              /\ Row(j, g) = Row(i, g) + 1
                    => obj[j].y = obj[i].y + 2 * d
        /\ obj[0].x = -obj[g * g - 1].x
        /\ obj[0].y = -obj[g * g - 1].y

\* A newly constructed grid of side 3 with the infection distance 2: agent
\* 5, in the last column of the middle row, is at (4, 0), and agent 6, in
\* the first column of the last row, at (-4, 4).
C21_Witness ==
    /\ Constructed
    /\ tick_count = 0
    /\ args.grid_side_length = 3
    /\ args.infection_distance = 2
    /\ obj[5].x = 4 /\ obj[5].y = 0
    /\ obj[6].x = -4 /\ obj[6].y = 4

\* C22 as stated: right after construction, every agent next to the seed
\* on the grid is within the infection distance of it.
C22_NeighboursWithinRange ==
    (Constructed /\ tick_count = 0) =>
        \A i \in Seeds, j \in Agents :
            LatticeNeighbours(i, j, args.grid_side_length)
                => Distance2(i, j) <= infection_distance * infection_distance

\* C22, amended: right after construction, every agent next to the seed on
\* the grid is at exactly twice the infection distance from it, and every
\* other agent further away still, so that none is within the infection
\* distance; the first Model.tick makes no contact call.
C22_NeighboursOutOfRange ==
    /\ (Constructed /\ tick_count = 0) =>
          \A i \in Seeds, j \in Agents \ Seeds :
              /\ LatticeNeighbours(i, j, args.grid_side_length)
                    => Distance2(i, j)
                          = (2 * infection_distance) * (2 * infection_distance)
              /\ Distance2(i, j)
                    >= (2 * infection_distance) * (2 * infection_distance)
              /\ Distance2(i, j) > infection_distance * infection_distance
    /\ tick_count = 1 => contact_log = <<>>

\* After the first tick of a grid of 4 agents, the seed among them without
\* a mask: no contact call was made.
C22_Witness ==
    /\ Constructed
    /\ tick_count = 1
    /\ args.grid_side_length = 2
    /\ \E i \in Agents :
          /\ obj[i].compartment = INFECTIOUS
          /\ ~obj[i].has_mask
          /\ ~obj[i].is_isolating
    /\ contact_log = <<>>

\* The pairs that a test of every agent against every other selects: a
\* non-isolating Infectious agent and a Susceptible agent within the
\* infection distance of each other.
AllPairsCheck ==
    { p \in [src : Agents, tgt : Agents] :
        /\ obj[p.src].compartment = INFECTIOUS
        /\ ~obj[p.src].is_isolating
        /\ obj[p.tgt].compartment = SUSCEPTIBLE
        /\ Distance2(p.src, p.tgt) <= infection_distance * infection_distance }

\* How often p occurs in the list.
Occurrences(list, p) == Cardinality({k \in 1..Len(list) : list[k] = p})

\* C23: in every state, the pairs that Model.tick selects from it for a
\* transmission attempt (by the sort by compartment, the susceptible
\* agents sorted by x, the window of the two bisections and the distance
\* test) are the pairs of the test of all pairs, each selected exactly
\* once and no other pair selected; and a Model.tick calls contact for
\* selected pairs only, at most once for each, and exactly once for each
\* pair whose infectious agent has no mask.
C23_SelectionIsAllPairsCheck ==
    /\ [](Constructed =>
            LET pairs == ContactPairs(SortedAgents(agents, obj), obj,
                                      infection_distance)
            IN \A p \in [src : Agents, tgt : Agents] :
                  Occurrences(pairs, p) = IF p \in AllPairsCheck THEN 1 ELSE 0)
    /\ [][tick_count' = tick_count + 1 =>
            \A p \in [src : Agents, tgt : Agents] :
                /\ Occurrences(contact_log', p) <= 1
                /\ Occurrences(contact_log', p) = 1 => p \in AllPairsCheck
                /\ (p \in AllPairsCheck /\ ~obj[p.src].has_mask)
                      => Occurrences(contact_log', p) = 1
        ]_vars

\* After a tick in which contact was called for an infectious agent i
\* without a mask on j, which was at the same x as i (the two are now an
\* even number of steps apart in x, each having moved by one step along x)
\* and one step from it in y, and was not called for i on n, which had
\* never been infected and was one step from i in x and one in y (an odd
\* number of steps apart in x now): in the window of i, and too far from
\* it.
C23_Witness ==
    /\ tick_count = SnapshotTick + 1
    /\ \E i, j, n \in Agents :
          /\ ~obj[i].has_mask
          /\ Occurrences(contact_log, [src |-> i, tgt |-> j]) = 1
          /\ obj[j].x - obj[i].x \in {-2, 0, 2}
          /\ obj[j].y - obj[i].y \in {1, -1}
          /\ obj[n].num_infections = 0
          /\ obj[n].x - obj[i].x \in {-3, -1, 1, 3}
          /\ obj[n].y - obj[i].y \in {1, -1}
          /\ Occurrences(contact_log, [src |-> i, tgt |-> n]) = 0

\* C24: an agent whose num_infections grows over a Model.tick was
\* Susceptible at the start of the tick and the target of a contact call;
\* when the tick returns it is in the compartment that the contact staged
\* (Infectious if its ticks_before_infectious is <= 0, Exposed otherwise),
\* it is one of the active cases that the tick counted (peak_cases is at
\* least their number), and its ticks_before_symptomatic and
\* ticks_before_infectious are as drawn, not decremented: the first in the
\* incubation range, the second less by
\* TICKS_INFECTIOUS_BEFORE_SYMPTOMATIC.  Its own tick did run: it has
\* taken one off the immunity countdown.
C24_ContactsBeforeAdvance ==
    [][tick_count' = tick_count + 1 =>
          \A i \in Agents :
              obj'[i].num_infections # obj[i].num_infections =>
                  /\ obj[i].compartment = SUSCEPTIBLE
                  /\ \E k \in 1..Len(contact_log') : contact_log'[k].tgt = i
                  /\ obj'[i].ticks_before_symptomatic \in Incubations
                  /\ obj'[i].ticks_before_infectious =
                        obj'[i].ticks_before_symptomatic
                        - TICKS_INFECTIOUS_BEFORE_SYMPTOMATIC
                  /\ obj'[i].compartment =
                        IF obj'[i].ticks_before_infectious <= 0
                        THEN INFECTIOUS ELSE EXPOSED
                  /\ obj'[i].future_compartment = obj'[i].compartment
                  /\ obj'[i].immunity_ticks_left = TICKS_IMMUNE - 1
                  /\ i \in {j \in DOMAIN obj' : IsCase(obj'[j])}
                  /\ peak_cases' >=
                        Cardinality({j \in DOMAIN obj' : IsCase(obj'[j])})
      ]_vars

\* After a tick in which an agent was infected with the shortest
\* incubation there is: it is Infectious, its timers are as drawn, and it
\* is the second active case, which the peak shows.
C24_Witness ==
    /\ tick_count > 0
    /\ peak_cases = 2
    /\ \E i \in Agents :
          /\ obj[i].compartment = INFECTIOUS
          /\ obj[i].immunity_ticks_left = TICKS_IMMUNE - 1
          /\ obj[i].ticks_before_symptomatic = INCUBATION_MIN_TICKS
          /\ obj[i].ticks_before_infectious =
                INCUBATION_MIN_TICKS - TICKS_INFECTIOUS_BEFORE_SYMPTOMATIC
          /\ \E k \in 1..Len(contact_log) : contact_log[k].tgt = i

\* C25: if tick keeps being called, an agent that is Exposed becomes
\* Infectious, an agent that is Infectious becomes Recovered or Deceased,
\* and an agent that is Recovered becomes Susceptible again, whatever the
\* timers that the constructor or a successful contact gave it.
C25_NoCompartmentForever ==
    /\ (obj[0].compartment = EXPOSED) ~> (obj[0].compartment = INFECTIOUS)
    /\ (obj[0].compartment = INFECTIOUS)
          ~> (obj[0].compartment \in {RECOVERED, DECEASED})
    /\ (obj[0].compartment = RECOVERED) ~> (obj[0].compartment = SUSCEPTIBLE)

\* An agent that has been through two cases, has recovered from the
\* second, has outlasted its immunity and is Susceptible again.
C25_Witness ==
    /\ obj[0].compartment = SUSCEPTIBLE
    /\ obj[0].num_infections = 2
    /\ obj[0].immunity_ticks_left = 0
    /\ obj[0].ticks_infectious_left = 0
    /\ obj[0].ticks_before_symptomatic = -TICKS_INFECTIOUS_AFTER_SYMPTOMATIC

\* C26: in every state, an agent that is isolating should isolate, is
\* Infectious with a case that is not asymptomatic, has reached the tick
\* on which its symptoms start (ticks_before_symptomatic <= 0) and has a
\* positive ticks_infectious_left; no agent that is Susceptible, Exposed,
\* Recovered or Deceased is isolating.
C26_IsolatingOnlyWhileSymptomatic ==
    \A i \in Agents :
        /\ obj[i].is_isolating =>
              /\ obj[i].should_isolate
              /\ ~obj[i].is_asymptomatic
              /\ obj[i].compartment = INFECTIOUS
              /\ obj[i].future_compartment = INFECTIOUS
              /\ obj[i].ticks_before_symptomatic <= 0
              /\ obj[i].ticks_infectious_left > 0
        /\ obj[i].compartment \in {SUSCEPTIBLE, EXPOSED, RECOVERED, DECEASED}
              => ~obj[i].is_isolating

\* An agent in its second case, isolating, one tick before the case ends.
C26_Witness ==
    \E i \in Agents :
        /\ obj[i].is_isolating
        /\ obj[i].compartment = INFECTIOUS
        /\ obj[i].ticks_infectious_left = 1
        /\ obj[i].num_infections = 2

\* C27: in a call of tick (a step that changes the agent and not its
\* num_infections) the agent moves, by exactly one unit, if and only if it
\* is not isolating after the tick's update of the timers and was not
\* Deceased before the tick: not on the tick that starts its isolation or
\* on one that continues it, but on the tick that ends it, even by its
\* death; otherwise it stays where it is.  In every state, the movement
\* of an agent changes nothing but x and y.
C27_MovesUnlessIsolatingOrDeceased ==
    /\ [](\A i \in Agents : \A direction \in Directions :
             [Move(obj[i], direction) EXCEPT !.x = obj[i].x, !.y = obj[i].y]
                 = obj[i])
    /\ [][\A i \in Agents :
            (obj'[i] # obj[i]
             /\ obj'[i].num_infections = obj[i].num_infections) =>
                LET dx == obj'[i].x - obj[i].x
                    dy == obj'[i].y - obj[i].y
                IN IF ~obj'[i].is_isolating /\ obj[i].compartment # DECEASED
                   THEN dx * dx + dy * dy = 1
                   ELSE dx = 0 /\ dy = 0
        ]_vars

\* An agent that isolated through its only case and died of it, one step
\* away from its place of construction.  The case was staged Infectious by
\* the contact, and the immunity countdown shows the ticks since then: one
\* as a Susceptible agent, INCUBATION_MIN_TICKS up to the start of the
\* symptoms and of the isolation, and TICKS_INFECTIOUS_AFTER_SYMPTOMATIC
\* up to the death.
C27_Witness ==
    \E i \in Agents :
        /\ obj[i].compartment = DECEASED
        /\ obj[i].should_isolate /\ ~obj[i].is_asymptomatic
        /\ obj[i].num_infections = 1
        /\ obj[i].ticks_before_infectious < 0
        /\ obj[i].ticks_before_symptomatic
              = -TICKS_INFECTIOUS_AFTER_SYMPTOMATIC
        /\ obj[i].immunity_ticks_left
              = TICKS_IMMUNE - INCUBATION_MIN_TICKS
                - TICKS_INFECTIOUS_AFTER_SYMPTOMATIC - 1
        /\ obj[i].x \in {1, -1}

\* C28: a call of tick (a step that changes the agent and not its
\* num_infections) takes exactly one off a positive immunity countdown,
\* whatever the compartment, and leaves a countdown of 0 at 0; in every
\* state the countdown is at least 0 and at most TICKS_IMMUNE.
C28_ImmunityCountdown ==
    /\ [](\A i \in Agents :
             /\ obj[i].immunity_ticks_left >= 0
             /\ obj[i].immunity_ticks_left <= TICKS_IMMUNE)
    /\ [][\A i \in Agents :
            (obj'[i] # obj[i]
             /\ obj'[i].num_infections = obj[i].num_infections) =>
                obj'[i].immunity_ticks_left =
                    IF obj[i].immunity_ticks_left > 0
                    THEN obj[i].immunity_ticks_left - 1
                    ELSE 0
        ]_vars

\* A Deceased agent whose countdown has run down to 1 since its infection
\* (it died at most INCUBATION_MAX_TICKS +
\* TICKS_INFECTIOUS_AFTER_SYMPTOMATIC ticks after it), and whose other two
\* timers are negative.
C28_Witness ==
    \E i \in Agents :
        /\ obj[i].compartment = DECEASED
        /\ obj[i].immunity_ticks_left = 1
        /\ obj[i].ticks_before_symptomatic < 0
        /\ obj[i].ticks_before_infectious < 0

\* The list in every order.
Orders(list) ==
    { [k \in 1..Len(list) |-> list[f[k]]] : f \in Permutations(1..Len(list)) }

\* The number of ways of choosing one outcome of tick for each agent of
\* the set ids.
RECURSIVE NumChoices(_)
NumChoices(ids) ==
    IF ids = {} THEN 1
    ELSE LET i == CHOOSE i \in ids : TRUE
         IN Cardinality(TickResults(obj[i])) * NumChoices(ids \ {i})

C30_HostLoop ==
    /\ [][tick_count' = tick_count + 1 => simulation_running]_vars
    /\ [](tick_count <= args.days_to_simulate * TICKS_PER_DAY)
    /\ [](ret # <<>> =>
            /\ tick_count = args.days_to_simulate * TICKS_PER_DAY
            /\ ret = get_simulation_stats)
    /\ [][ret = <<>>]_vars
    /\ <>(ret # <<>>)

\* The end of a run of two days on a grid of 4 agents: the statistics have
\* been read after 2 * TICKS_PER_DAY ticks, and show a second case.
C30_Witness ==
    /\ args.grid_side_length = 2
    /\ args.days_to_simulate = 2
    /\ tick_count = 2 * TICKS_PER_DAY
    /\ ret # <<>>
    /\ ret[1] = 2

\* C31: in every state between two calls of Model.tick, each agent's
\* compartment is its staged compartment.  Within a Model.tick that starts
\* from the state, the two differ after the contact phase only for an
\* agent that a contact has infected, and after the timer transitions of
\* an agent's own tick only where they have staged a change; the commit
\* at the end of that tick makes them equal again.
C31_StagedIsCommitted ==
    /\ \A i \in Agents : obj[i].compartment = obj[i].future_compartment
    /\ tick_count = SnapshotTick =>
          \A st \in ResolveContacts(
                        ContactPairs(SortedAgents(agents, obj), obj,
                                     infection_distance),
                        [obj |-> obj, log |-> <<>>]) :
              \A i \in Agents :
                  /\ st.obj[i].compartment = obj[i].compartment
                  /\ st.obj[i].compartment # st.obj[i].future_compartment
                        => st.obj[i].num_infections = obj[i].num_infections + 1
                  /\ \A dies \in BOOLEAN :
                        /\ AdvanceCase(st.obj[i], dies).compartment
                              = obj[i].compartment
                        /\ Commit(AdvanceCase(st.obj[i], dies)).compartment
                              = AdvanceCase(st.obj[i], dies).future_compartment

\* After a Model.tick in which an agent was infected with the longest
\* incubation there is: it is Exposed, and staged Exposed.
C31_Witness ==
    /\ tick_count = SnapshotTick + 1
    /\ \E i \in Agents :
          /\ obj[i].compartment = EXPOSED
          /\ obj[i].future_compartment = EXPOSED
          /\ obj[i].immunity_ticks_left = TICKS_IMMUNE - 1
          /\ obj[i].ticks_before_symptomatic = INCUBATION_MAX_TICKS

TickHasOutcome ==
    \A sorted \in {SortedAgents(agents, obj)} :
      \A resolved \in {ResolveContacts(
                           ContactPairs(sorted, obj, infection_distance),
                           [obj |-> obj, log |-> <<>>])} :
        /\ resolved # {}
        /\ \A st \in resolved : AdvanceAgents(sorted, st.obj) # {}

\* The step is a Model.tick in full: contacts resolved, every agent
\* advanced, the peak raised to the cases counted, one tick counted.
TickInFull ==
    \A sorted \in {SortedAgents(agents, obj)} :
      /\ \E st \in ResolveContacts(
                       ContactPairs(sorted, obj, infection_distance),
                       [obj |-> obj, log |-> <<>>]) :
            /\ contact_log' = st.log
            /\ obj' \in AdvanceAgents(sorted, st.obj)
      /\ agents' = sorted
      /\ peak_cases' = IF CurrentCases(sorted, obj') > peak_cases
                       THEN CurrentCases(sorted, obj') ELSE peak_cases
      /\ tick_count' = tick_count + 1

\* C33: Model.tick does not look at simulation_running.  Called when
\* tick_count >= ticks_to_simulate it is not refused and fails nowhere: it
\* has an outcome, and it is a tick in full (contacts resolved, every agent
\* advanced, peak_cases raised to the cases counted when they exceed it),
\* which takes tick_count beyond ticks_to_simulate; simulation_running
\* stays false.
C33_TickAfterTheEnd ==
    /\ [](tick_count >= ticks_to_simulate =>
             (~simulation_running /\ TickHasOutcome))
    /\ [][(tick_count >= ticks_to_simulate /\ ret' = <<>>) =>
             (TickInFull
              /\ tick_count' > ticks_to_simulate
              /\ ~simulation_running')]_vars

\* The second tick of a simulation of one tick has returned: in it the
\* seed infected a neighbour, now Exposed, and the peak rose from 1 to 2.
C33_Witness ==
    /\ tick_count = ticks_to_simulate + 1
    /\ ~simulation_running
    /\ contact_log # <<>>
    /\ peak_cases = 2
    /\ ActiveCases = 2
    /\ \E i \in Agents :
          /\ obj[i].compartment = EXPOSED
          /\ obj[i].num_infections = 1
          /\ obj[i].immunity_ticks_left = TICKS_IMMUNE - 1

====
